---- MODULE Spec2Model ----
(***************************************************************************)
(* A model of the parsing / aggregation core of the repository:            *)
(*   scripts/vac_analysis/summary.py      (energy summary over folders)    *)
(*   scripts/file_conversion/data_to_xyz.py (LAMMPS data -> XYZ)           *)
(*   scripts/vac_generation/check.py      (integrity check of folders)     *)
(* Energies and masses are fixed-point integers in thousandths (the code   *)
(* uses Python floats; only +, -, comparison and truncation are applied).  *)
(***************************************************************************)
EXTENDS Integers, Sequences, FiniteSets, TLC

VARIABLES
    \* ---- summary.py: the file system it reads
    encoding,      \* locale encoding used by open(path, 'r'): "utf-8" | "latin-1"
    up_out,        \* ../out.run
    cwd_out,       \* ./out.run
    crystal_out,   \* ../crystal/out.run
    listing,       \* os.listdir('.') : sequence of entry names
    fs,            \* entry name -> [isdir, log]
    \* ---- summary.py: program state
    pc,
    parent_energy,
    crystal_cohesive_energy,
    folders,       \* sorted(os.listdir('.')) the for loop iterates
    k,             \* position of the for loop in folders (1-based)
    e_summary,     \* e_summary.txt : the lines it holds, those written through out_f included
    stdout,        \* print() calls so far
    \* ---- data_to_xyz.py
    src,           \* how the input data file is laid out (its sections and rows)
    data_file,     \* the input file: f.readlines()
    xpc,
    data,          \* what parse_lammps_data returned, or that it raised
    \* ---- data_to_xyz.py: main and convert_data_to_xyz
    layout,        \* how the input file was laid out when the program started
    argv,          \* sys.argv[1:] : the input name, then the other arguments
    disk,          \* path -> [exists, lines] : the files of the directory
    vpc,
    output_file,   \* what convert_data_to_xyz returned, None before and on a raise
    conv_stdout,   \* print() calls of main so far
    exit_code,     \* status of sys.exit, 0 while running and at a normal end
    \* ---- data_to_xyz.py: mass_to_element on its own
    mass_in,       \* the argument (thousandths of a mass unit)
    mpc,
    element,       \* the returned symbol
    \* ---- check.py
    glob_result,   \* glob.glob('vac_*') : sequence of entry names, any order
    vfs,           \* entry name -> [isdir, log]
    cpc,
    vac_folders,   \* the sorted list the loop iterates
    vi,            \* position of the loop in vac_folders (1-based)
    folders_without_energy,
    missing_files,
    report,        \* the folders printed under "FOLDERS WITHOUT ENERGIES"
    summary        \* the counts printed under "SUMMARY", <<>> when not printed

convvars == <<layout, argv, disk, vpc, output_file, conv_stdout, exit_code>>
xyzvars == <<src, data_file, xpc, data, convvars>>
massvars == <<mass_in, mpc, element>>
chkvars == <<glob_result, vfs, cpc, vac_folders, vi, folders_without_energy, missing_files,
             report, summary>>

sumvars == <<encoding, up_out, cwd_out, crystal_out, listing, fs, pc,
             parent_energy, crystal_cohesive_energy, folders, k, e_summary, stdout>>

-----------------------------------------------------------------------------
(* Python None / float values *)
None == [some |-> FALSE, v |-> 0]
Some(x) == [some |-> TRUE, v |-> x]

(* Bounds of the model *)
MaxEntries == 2

Names == 1..MaxEntries

(* Energies that appear in the logs (thousandths of eV). *)
ParentTotal == 0 - 100000
CwdTotal == 0 - 99000
CrystalCohesive == 0 - 4500
FolderTotal == 0 - 95000
FolderCohesive == 0 - 4000

(* A log file out.run.  exists: os.path.exists; readable: open()/read() does  *)
(* not raise OSError; bad: the bytes hold sequences that are not valid UTF-8; *)
(* total / cohesive: the number captured by the first occurrence of           *)
(* "Total energy (eV) = <float>;" / "Cohesive energy (eV) = <float>;" in the  *)
(* text (None when the text has no such occurrence).                          *)
MissingLog == [exists |-> FALSE, readable |-> FALSE, bad |-> FALSE, total |-> None, cohesive |-> None]
UnreadableLog == [exists |-> TRUE, readable |-> FALSE, bad |-> FALSE, total |-> None, cohesive |-> None]
TextLog(t, c, b) == [exists |-> TRUE, readable |-> TRUE, bad |-> b, total |-> t, cohesive |-> c]

UpLogs == {MissingLog, UnreadableLog} \cup {TextLog(t, None, FALSE) : t \in {None, Some(ParentTotal)}}
CwdLogs == {MissingLog, TextLog(Some(CwdTotal), None, FALSE)}
CrystalLogs == {MissingLog, UnreadableLog} \cup {TextLog(None, c, FALSE) : c \in {None, Some(CrystalCohesive)}}
FolderLogs == {MissingLog, UnreadableLog}
              \cup {TextLog(t, c, b) : t \in {None, Some(FolderTotal)},
                                       c \in {None, Some(FolderCohesive)},
                                       b \in BOOLEAN}
Entries == {[isdir |-> FALSE, log |-> MissingLog]} \cup {[isdir |-> TRUE, log |-> l] : l \in FolderLogs}

(* Sequences of distinct names: what os.listdir may return, in any order. *)
Listings == UNION {{s \in [1..n -> Names] : \A a, b \in 1..n : a # b => s[a] # s[b]} : n \in 0..MaxEntries}

Range(s) == {s[j] : j \in 1..Len(s)}

-----------------------------------------------------------------------------
(* with open(path, 'r') as f: content = f.read()                            *)
(* The exception it raises, or "none" when it returns the text.  The default*)
(* text mode decodes strictly with the locale encoding: invalid UTF-8 raises*)
(* UnicodeDecodeError under "utf-8" and decodes to other characters under   *)
(* "latin-1", leaving the ASCII energy lines as they are.                   *)
ReadError(log, enc) ==
    IF ~log.readable THEN "OSError"
    ELSE IF log.bad /\ enc = "utf-8" THEN "UnicodeDecodeError"
    ELSE "none"

(* except Exception as e: the exception classes the handler catches *)
ExceptOSError(e) == e = "OSError"
ExceptException(e) == e \in {"OSError", "UnicodeDecodeError", "ValueError", "KeyError"}

(* re.search(total_energy_pattern, content), float(match.group(1)) *)
total_match(log) == log.total
cohesive_match(log) == log.cohesive

(* Lines of e_summary.txt *)
NA == [na |-> TRUE, v |-> 0]
Num(x) == [na |-> FALSE, v |-> x]
Header == [kind |-> "header", folder |-> 0, total |-> NA, cohesive |-> NA, delta |-> NA, formation |-> NA]
Row(f, t, c, d, e) == [kind |-> "row", folder |-> f, total |-> t, cohesive |-> c, delta |-> d, formation |-> e]
OldLine == [kind |-> "old", folder |-> 0, total |-> NA, cohesive |-> NA, delta |-> NA, formation |-> NA]

(* f"{x}" if x is not None else "N/A" *)
Str(x) == IF x.some THEN Num(x.v) ELSE NA

Say(msg, f) == [msg |-> msg, folder |-> f]

(* The other programs are not running. *)
MassIdle == mass_in = 0 /\ element = [generic |-> TRUE, sym |-> "X", n |-> 0] /\ mpc = "idle"
CheckIdle ==
    /\ glob_result = <<>> /\ vfs = <<>> /\ cpc = "idle" /\ vac_folders = <<>> /\ vi = 0
    /\ folders_without_energy = <<>> /\ missing_files = <<>> /\ report = <<>> /\ summary = <<>>
ConvIdle ==
    /\ layout = <<>> /\ argv = <<>> /\ disk = <<>> /\ vpc = "idle"
    /\ output_file = None /\ conv_stdout = <<>> /\ exit_code = 0
XyzIdle == src = <<>> /\ data_file = <<>> /\ xpc = "idle" /\ data = <<>> /\ ConvIdle

-----------------------------------------------------------------------------
SumInit ==
    /\ encoding \in {"utf-8", "latin-1"}
    /\ up_out \in UpLogs
    /\ cwd_out \in IF up_out.exists THEN {MissingLog} ELSE CwdLogs
    /\ crystal_out \in CrystalLogs
    /\ listing \in Listings
    /\ fs \in [Range(listing) -> Entries]
    /\ pc = "parent"
    /\ parent_energy = None
    /\ crystal_cohesive_energy = None
    /\ folders = <<>>
    /\ k = 0
    /\ e_summary \in {<<>>, <<OldLine>>}
    /\ stdout = <<>>
    /\ XyzIdle
    /\ MassIdle
    /\ CheckIdle

(* summary.py line 13 *)
parent_out_file == IF up_out.exists THEN up_out ELSE cwd_out

(* summary.py lines 11-28 *)
GetParentEnergy ==
    /\ pc = "parent"
    /\ IF parent_out_file.exists
           THEN IF ReadError(parent_out_file, encoding) # "none"
                THEN /\ parent_energy' = parent_energy
                     /\ stdout' = Append(stdout, Say("Error processing parent", 0))
                ELSE IF total_match(parent_out_file).some
                     THEN /\ parent_energy' = total_match(parent_out_file)
                          /\ stdout' = Append(stdout, Say("Parent energy found", 0))
                     ELSE /\ parent_energy' = parent_energy
                          /\ stdout' = Append(stdout, Say("Warning: no total energy in parent", 0))
           ELSE /\ parent_energy' = parent_energy
                /\ stdout' = Append(stdout, Say("Warning: no out.run in parent", 0))
    /\ pc' = IF parent_out_file.exists /\ ReadError(parent_out_file, encoding) # "none"
                /\ ~ExceptException(ReadError(parent_out_file, encoding))
             THEN "aborted" ELSE "crystal"
    /\ UNCHANGED <<xyzvars, massvars, chkvars>>
    /\ UNCHANGED <<encoding, up_out, cwd_out, crystal_out, listing, fs,
                   crystal_cohesive_energy, folders, k, e_summary>>

(* summary.py lines 30-47 *)
GetCrystalEnergy ==
    /\ pc = "crystal"
    /\ IF crystal_out.exists
       THEN IF ReadError(crystal_out, encoding) # "none"
            THEN /\ crystal_cohesive_energy' = crystal_cohesive_energy
                 /\ stdout' = Append(stdout, Say("Error processing crystal", 0))
            ELSE IF cohesive_match(crystal_out).some
                 THEN /\ crystal_cohesive_energy' = cohesive_match(crystal_out)
                      /\ stdout' = Append(stdout, Say("Crystal cohesive energy found", 0))
                 ELSE /\ crystal_cohesive_energy' = crystal_cohesive_energy
                      /\ stdout' = Append(stdout, Say("Warning: no cohesive energy in crystal", 0))
       ELSE /\ crystal_cohesive_energy' = crystal_cohesive_energy
            /\ stdout' = Append(stdout, Say("Warning: no out.run in crystal", 0))
    /\ pc' = IF crystal_out.exists /\ ReadError(crystal_out, encoding) # "none"
                /\ ~ExceptException(ReadError(crystal_out, encoding))
             THEN "aborted" ELSE "open"
    /\ UNCHANGED <<xyzvars, massvars, chkvars>>
    /\ UNCHANGED <<encoding, up_out, cwd_out, crystal_out, listing, fs,
                   parent_energy, folders, k, e_summary>>

(* the listing as os.listdir returned it *)
unsorted(names) == names
(* summary.py line 55: sorted(os.listdir('.')) *)
sorted(names) == SortSeq(names, LAMBDA a, b : a < b)

(* open(output_file, 'a') would keep the previous content *)
open_a(content) == content
(* summary.py line 50: open(output_file, 'w') empties the file *)
open_w(content) == <<>>

(* summary.py lines 49-55: open(output_file, 'w') truncates, the header is *)
(* written, and the for statement evaluates sorted(os.listdir('.')).       *)
OpenOutput ==
    /\ pc = "open"
    /\ e_summary' = Append(open_w(e_summary), Header)
    /\ folders' = sorted(listing)
    /\ k' = 1
    /\ pc' = "loop"
    /\ UNCHANGED <<xyzvars, massvars, chkvars>>
    /\ UNCHANGED <<encoding, up_out, cwd_out, crystal_out, listing, fs,
                   parent_energy, crystal_cohesive_energy, stdout>>

(* summary.py lines 73-76 *)
delta_e(total_energy, cohesive_energy, parent) ==
    IF parent.some THEN Some((total_energy + cohesive_energy) - parent.v) ELSE None

(* summary.py lines 84-86 *)
formation_energy(total_energy, crystal, parent) ==
    IF crystal.some /\ parent.some THEN Some((total_energy + crystal.v) - parent.v) ELSE None

(* summary.py lines 56-104: one iteration of the loop, for entry `folder`: *)
(* the lines written, the messages printed, and whether an exception leaves *)
(* the try statement uncaught (the script then ends with a traceback).      *)
FolderOutcome(folder, entry, enc, parent, crystal) ==
    IF ~entry.isdir
    THEN [rows |-> <<>>, msgs |-> <<>>, uncaught |-> FALSE]
    ELSE IF ~entry.log.exists
    THEN [rows |-> <<>>, msgs |-> <<Say("Warning: No out.run found", folder)>>, uncaught |-> FALSE]
    ELSE IF ReadError(entry.log, enc) # "none"
    THEN IF ExceptException(ReadError(entry.log, enc))
         THEN [rows |-> <<>>, msgs |-> <<Say("Error processing", folder)>>, uncaught |-> FALSE]
         ELSE [rows |-> <<>>, msgs |-> <<>>, uncaught |-> TRUE]
    ELSE IF total_match(entry.log).some /\ cohesive_match(entry.log).some
    THEN LET total_energy == total_match(entry.log).v
             cohesive_energy == cohesive_match(entry.log).v
             d == delta_e(total_energy, cohesive_energy, parent)
             e == formation_energy(total_energy, crystal, parent)
         IN  [rows |-> <<Row(folder, Num(total_energy), Num(cohesive_energy), Str(d), Str(e))>>,
              msgs |-> <<Say("Energies extracted", folder)>>, uncaught |-> FALSE]
    ELSE [rows |-> <<>>, msgs |-> <<Say("Warning: No energies found", folder)>>, uncaught |-> FALSE]

ProcessFolder ==
    /\ pc = "loop"
    /\ k <= Len(folders)
    /\ LET folder == folders[k]
           out == FolderOutcome(folder, fs[folder], encoding, parent_energy, crystal_cohesive_energy)
       IN  /\ e_summary' = e_summary \o out.rows
           /\ stdout' = stdout \o out.msgs
           /\ pc' = IF out.uncaught THEN "aborted" ELSE pc
           /\ k' = IF out.uncaught THEN k ELSE k + 1
    /\ UNCHANGED <<xyzvars, massvars, chkvars>>
    /\ UNCHANGED <<encoding, up_out, cwd_out, crystal_out, listing, fs,
                   parent_energy, crystal_cohesive_energy, folders>>

(* summary.py lines 105-109: the loop is exhausted, the file is closed. *)
Finish ==
    /\ pc = "loop"
    /\ k > Len(folders)
    /\ pc' = "done"
    /\ stdout' = Append(stdout, Say("Process completed", 0))
    /\ UNCHANGED <<xyzvars, massvars, chkvars>>
    /\ UNCHANGED <<encoding, up_out, cwd_out, crystal_out, listing, fs,
                   parent_energy, crystal_cohesive_energy, folders, k, e_summary>>

SumNext == GetParentEnergy \/ GetCrystalEnergy \/ OpenOutput \/ ProcessFolder \/ Finish

vars == <<sumvars, xyzvars, massvars, chkvars>>

Spec == SumInit /\ [][SumNext]_vars

-----------------------------------------------------------------------------
(* Vocabulary of the claims about summary.py *)

(* the subdirectories of the working directory *)
Subdirs == {f \in Range(listing) : fs[f].isdir}

(* the data rows of e_summary.txt written for folder f *)
RowsOf(f) == {j \in 1..Len(e_summary) : e_summary[j].kind = "row" /\ e_summary[j].folder = f}

(* what the two energy patterns find in the bytes of f's out.run *)
LogTotal(f) == fs[f].log.total
LogCohesive(f) == fs[f].log.cohesive

(* a scan of f's log fails: the log is there and reading it raises *)
ScanFails(f) == fs[f].isdir /\ fs[f].log.exists /\ ReadError(fs[f].log, encoding) # "none"

(* position of folder f in the order of the loop *)
PosOf(f) == CHOOSE j \in 1..Len(folders) : folders[j] = f

Mentioned(f) == \E j \in 1..Len(stdout) : stdout[j].folder = f

(* C1: after the run the table holds exactly one data row for every         *)
(* subdirectory, whatever happened while scanning it (missing out.run, no    *)
(* or only one energy pattern, unreadable log), unavailable fields as "N/A". *)
C1_OneRowPerSubdir ==
    pc = "done" => \A f \in Subdirs : Cardinality(RowsOf(f)) = 1

(* C2: formation_energy is present in a subdirectory's row iff the row's     *)
(* total energy, the crystal cohesive energy and the parent total energy are *)
(* all present, and then equals total + crystal_cohesive - parent_total; the *)
(* row's own cohesive energy plays no part.                                  *)
C2_FormationIffInputs ==
    pc = "done" =>
        \A f \in Subdirs :
            /\ (\E j \in RowsOf(f) : ~e_summary[j].formation.na)
                  <=> (~ScanFails(f) /\ LogTotal(f).some
                       /\ crystal_cohesive_energy.some /\ parent_energy.some)
            /\ \A j \in RowsOf(f) :
                  ~e_summary[j].formation.na =>
                      e_summary[j].formation =
                          Num((LogTotal(f).v + crystal_cohesive_energy.v) - parent_energy.v)

(* C3: a failure while reading one subdirectory's log never aborts the run:  *)
(* the run is never stuck before its end, and at its end every subdirectory  *)
(* that comes after a failing one has been scanned and reported (a message   *)
(* for it, and its row when its log holds both energies).                    *)
C3_FailureDoesNotAbort ==
    /\ pc = "done" \/ ENABLED SumNext
    /\ pc = "done" =>
          \A f, g \in Subdirs :
              (ScanFails(f) /\ PosOf(f) < PosOf(g)) =>
                  /\ Mentioned(g)
                  /\ (~ScanFails(g) /\ LogTotal(g).some /\ LogCohesive(g).some)
                        => RowsOf(g) # {}

C3_Witness ==
    /\ pc = "done"
    /\ \E f, g \in Subdirs :
          /\ ScanFails(f) /\ ReadError(fs[f].log, encoding) = "UnicodeDecodeError"
          /\ PosOf(f) < PosOf(g)
          /\ RowsOf(g) # {}

(* C4: delta_e is present in a subdirectory's row iff the row's total, the   *)
(* row's cohesive and the parent total are all present, and then equals      *)
(* (total + cohesive) - parent_total; otherwise the cell is "N/A".           *)
C4_DeltaEIffInputs ==
    pc = "done" =>
        \A f \in Subdirs :
            IF ~ScanFails(f) /\ LogTotal(f).some /\ LogCohesive(f).some /\ parent_energy.some
            THEN \E j \in RowsOf(f) :
                    e_summary[j].delta = Num((LogTotal(f).v + LogCohesive(f).v) - parent_energy.v)
            ELSE \E j \in RowsOf(f) : e_summary[j].delta = NA

(* C10: scanning a log never fails because of its bytes: a log that holds    *)
(* undecodable bytes together with both energy lines still yields its total  *)
(* and cohesive energy in the summary row.                                   *)
C10_BadBytesTolerated ==
    pc = "done" =>
        \A f \in Subdirs :
            (fs[f].log.readable /\ fs[f].log.bad /\ LogTotal(f).some /\ LogCohesive(f).some) =>
                \E j \in RowsOf(f) :
                    /\ e_summary[j].total = Num(LogTotal(f).v)
                    /\ e_summary[j].cohesive = Num(LogCohesive(f).v)
(* position of folder f in os.listdir('.') *)
ListedAt(f) == CHOOSE j \in 1..Len(listing) : listing[j] = f

(* the positions of the data rows in e_summary.txt *)
DataRows == {j \in 1..Len(e_summary) : e_summary[j].kind = "row"}

(* C11 as stated: the rows appear in the order in which the directory        *)
(* listing returned the subdirectories; the aggregator does not re-sort.     *)
C11_RowsInListingOrder ==
    pc = "done" =>
        \A i, j \in DataRows :
            i < j => ListedAt(e_summary[i].folder) < ListedAt(e_summary[j].folder)

(* C11 amended: the rows appear in ascending order of the subdirectory name, *)
(* whatever order the directory listing returned: the aggregator sorts the   *)
(* listing before it scans.                                                  *)
C11_RowsInSortedOrder ==
    \A i, j \in DataRows : i < j => e_summary[i].folder < e_summary[j].folder

(* two rows written for a listing that was not in sorted order *)
C11_Witness ==
    /\ pc = "done"
    /\ Cardinality(DataRows) >= 2
    /\ \E a, b \in 1..Len(listing) : a < b /\ listing[a] > listing[b]

(* folder f is a subdirectory whose log is read and holds both energies *)
BothEnergies(f) ==
    /\ fs[f].isdir /\ fs[f].log.exists /\ ~ScanFails(f)
    /\ LogTotal(f).some /\ LogCohesive(f).some

(* C15 as stated: the summary file is persisted exactly once, at the end of  *)
(* the run: no step before the end of the run writes to the summary file     *)
(* (header or row), so a previous summary file stays intact until then.      *)
C15_NothingWrittenBeforeEnd ==
    [][pc' # "done" => e_summary' = e_summary]_vars

(* C15 amended: the summary file is opened for writing, which empties a      *)
(* previous summary, and the header is written to it before the first        *)
(* subdirectory is scanned; each row is written to it while its subdirectory *)
(* is scanned, so from the start of the scan on no line of a previous        *)
(* summary is left.                                                          *)
C15_TruncatedThenAppended ==
    pc \in {"loop", "done"} =>
        /\ Len(e_summary) >= 1
        /\ e_summary[1] = Header
        /\ \A j \in 1..Len(e_summary) : e_summary[j].kind # "old"
        /\ \A j \in 1..Len(folders) :
              RowsOf(folders[j]) # {} <=> (j < k /\ BothEnergies(folders[j]))

(* the scan is in the middle of the loop and a row is already in the file *)
C15_Witness ==
    /\ pc = "loop"
    /\ k <= Len(folders)
    /\ DataRows # {}


-----------------------------------------------------------------------------
(*                    data_to_xyz.py : parse_lammps_data                     *)
-----------------------------------------------------------------------------
MaxMassLines == 2
MaxAtomLines == 2

(* A token of line.split(): an integer literal ("12"), a float literal       *)
(* ("12.011", value in thousandths) or any other word.                       *)
Tok(t, v) == [t |-> t, v |-> v]
I(n) == Tok("int", n)
F(x) == Tok("float", x)
W == Tok("word", 0)

(* int(tok) / float(tok) raise ValueError unless the token is a literal of   *)
(* the type (float() also accepts an integer literal).                       *)
IntOk(tok) == tok.t = "int"
FloatOk(tok) == tok.t \in {"int", "float"}
FloatVal(tok) == IF tok.t = "int" THEN tok.v * 1000 ELSE tok.v

(* A line of the file: the kind of text it is, and its tokens.               *)
(*   "title"      LAMMPS data file                                           *)
(*   "blank"                                                                 *)
(*   "comment"    # comment                                                  *)
(*   "natoms"     <n> atoms              "ntypes"   <n> atom types           *)
(*   "xlo"        <lo> <hi> xlo xhi      (and "ylo", "zlo")                  *)
(*   "tilt"       <xy> <xz> <yz> xy xz yz                                    *)
(*   "Masses"     Masses                 "Velocities"   Velocities           *)
(*   "AtomsStyle" Atoms # atomic         "Atoms"        Atoms                *)
(*   "Bonds"      Bonds                  "row"          a row of tokens      *)
Line(kind, parts) == [kind |-> kind, parts |-> parts]

Blank == Line("blank", <<>>)
Comment == Line("comment", <<W, W>>)
Title == Line("title", <<W, W, W>>)

(* the string tests of the parser, by kind of line *)
StartsWithHash(l) == l.kind = "comment"                       \* line.startswith('#')
HasAtoms(l) == l.kind = "natoms"                              \* 'atoms' in line
HasAtomTypes(l) == l.kind = "ntypes"                          \* 'atom types' in line
IsMasses(l) == l.kind = "Masses"                              \* line.strip().lower() == 'masses'
LowerHasAtoms(l) == l.kind \in {"natoms", "Atoms", "AtomsStyle"}  \* 'atoms' in line.lower()
HasHash(l) == l.kind \in {"comment", "AtomsStyle"}            \* '#' in line.lower()
LowerHasAtomic(l) == l.kind = "AtomsStyle"                    \* 'atomic' in line.lower()
LowerStartsAtoms(l) == l.kind \in {"Atoms", "AtomsStyle"}     \* line.lower().startswith('atoms')
LowerStartsVelocities(l) == l.kind = "Velocities"
LowerStartsBonds(l) == l.kind = "Bonds"

(* data_to_xyz.py lines 30-53: the header pass over every line *)
RECURSIVE HeaderLoop(_, _, _)
HeaderLoop(lines, i, h) ==
    IF i > Len(lines) THEN h
    ELSE LET line == lines[i]
             parts == line.parts
         IN  IF HasAtoms(line) /\ ~StartsWithHash(line)
             THEN IF IntOk(parts[1])
                  THEN HeaderLoop(lines, i + 1, [h EXCEPT !.n_atoms = parts[1].v])
                  ELSE [h EXCEPT !.raised = TRUE]
             ELSE IF HasAtomTypes(line) /\ ~StartsWithHash(line)
             THEN IF IntOk(parts[1])
                  THEN HeaderLoop(lines, i + 1, [h EXCEPT !.n_atom_types = parts[1].v])
                  ELSE [h EXCEPT !.raised = TRUE]
             ELSE IF line.kind \in {"xlo", "ylo", "zlo"}
             THEN IF FloatOk(parts[1]) /\ FloatOk(parts[2])
                  THEN HeaderLoop(lines, i + 1,
                         [h EXCEPT !.box_bounds =
                            ((CASE line.kind = "xlo" -> "x" [] line.kind = "ylo" -> "y" [] OTHER -> "z")
                                :> <<FloatVal(parts[1]), FloatVal(parts[2])>>) @@ h.box_bounds])
                  ELSE [h EXCEPT !.raised = TRUE]
             ELSE IF line.kind = "tilt"
             THEN IF FloatOk(parts[1]) /\ FloatOk(parts[2]) /\ FloatOk(parts[3])
                  THEN HeaderLoop(lines, i + 1,
                         [h EXCEPT !.box_bounds =
                            ("tilt" :> <<FloatVal(parts[1]), FloatVal(parts[2]), FloatVal(parts[3])>>)
                                @@ h.box_bounds])
                  ELSE [h EXCEPT !.raised = TRUE]
             ELSE HeaderLoop(lines, i + 1, h)

(* data_to_xyz.py lines 55-60: index of the first body line, 0 for None *)
MassesStart(lines) ==
    IF \E i \in 1..Len(lines) : IsMasses(lines[i])
    THEN (CHOOSE i \in 1..Len(lines) :
            IsMasses(lines[i]) /\ \A j \in 1..(i - 1) : ~IsMasses(lines[j])) + 1
    ELSE 0

(* data_to_xyz.py lines 62-74 *)
RECURSIVE MassesLoop(_, _, _)
MassesLoop(lines, i, masses) ==
    IF i > Len(lines) THEN [raised |-> FALSE, masses |-> masses]
    ELSE LET line == lines[i]
             parts == line.parts
         IN  IF line.kind = "blank" \/ StartsWithHash(line)
             THEN MassesLoop(lines, i + 1, masses)
             ELSE IF LowerStartsAtoms(line) \/ LowerStartsVelocities(line) \/ LowerStartsBonds(line)
             THEN [raised |-> FALSE, masses |-> masses]
             ELSE IF Len(parts) >= 2
             THEN IF IntOk(parts[1]) /\ FloatOk(parts[2])
                  THEN MassesLoop(lines, i + 1, (parts[1].v :> FloatVal(parts[2])) @@ masses)
                  ELSE [raised |-> TRUE, masses |-> masses]
             ELSE MassesLoop(lines, i + 1, masses)

(* data_to_xyz.py line 79: the line that opens the atoms section *)
IsAtomsHeader(l) == LowerHasAtoms(l) /\ (HasHash(l) \/ LowerHasAtomic(l))

(* data_to_xyz.py lines 76-81 *)
AtomsStart(lines) ==
    IF \E i \in 1..Len(lines) : IsAtomsHeader(lines[i])
    THEN (CHOOSE i \in 1..Len(lines) :
            IsAtomsHeader(lines[i]) /\ \A j \in 1..(i - 1) : ~IsAtomsHeader(lines[j])) + 1
    ELSE 0

(* data_to_xyz.py lines 83-105 *)
RECURSIVE AtomsLoop(_, _, _)
AtomsLoop(lines, i, atoms) ==
    IF i > Len(lines) THEN [raised |-> FALSE, atoms |-> atoms]
    ELSE LET line == lines[i]
             parts == line.parts
         IN  IF line.kind = "blank" \/ StartsWithHash(line)
             THEN AtomsLoop(lines, i + 1, atoms)
             ELSE IF LowerStartsVelocities(line) \/ LowerStartsBonds(line)
             THEN [raised |-> FALSE, atoms |-> atoms]
             ELSE IF Len(parts) >= 5
             THEN IF IntOk(parts[1]) /\ IntOk(parts[2])
                     /\ FloatOk(parts[3]) /\ FloatOk(parts[4]) /\ FloatOk(parts[5])
                  THEN AtomsLoop(lines, i + 1,
                         Append(atoms, [id |-> parts[1].v, type |-> parts[2].v,
                                        x |-> FloatVal(parts[3]), y |-> FloatVal(parts[4]),
                                        z |-> FloatVal(parts[5])]))
                  ELSE [raised |-> TRUE, atoms |-> atoms]
             ELSE AtomsLoop(lines, i + 1, atoms)

(* the call ended with an exception (ValueError) instead of a return value *)
Raised == [raised |-> TRUE, atoms |-> <<>>, masses |-> <<>>, box_bounds |-> <<>>,
           n_atoms |-> 0, n_atom_types |-> 0]

(* data_to_xyz.py lines 5-113 *)
parse_lammps_data(lines) ==
    LET h == HeaderLoop(lines, 1, [raised |-> FALSE, n_atoms |-> 0, n_atom_types |-> 0,
                                   box_bounds |-> <<>>])
        masses_start == MassesStart(lines)
        m == IF masses_start # 0 THEN MassesLoop(lines, masses_start, <<>>)
             ELSE [raised |-> FALSE, masses |-> <<>>]
        atoms_start == AtomsStart(lines)
        a == IF atoms_start # 0 THEN AtomsLoop(lines, atoms_start, <<>>)
             ELSE [raised |-> FALSE, atoms |-> <<>>]
    IN  IF h.raised \/ m.raised \/ a.raised
        THEN Raised
        ELSE [raised |-> FALSE, atoms |-> a.atoms, masses |-> m.masses,
              box_bounds |-> h.box_bounds, n_atoms |-> h.n_atoms,
              n_atom_types |-> h.n_atom_types]

-----------------------------------------------------------------------------
(* The input files of the model. *)
MassRow(type, mass) == Line("row", <<I(type), F(mass)>>)
AtomRow(id, type) == Line("row", <<I(id), I(type), F(id * 1500), F(0), F(500)>>)

(* rows of the Masses body: two types, a row of one field, a row whose type  *)
(* is not an integer literal ("C 12.011")                                    *)
MassBodyLines == {Blank, Comment, MassRow(1, 12011), MassRow(2, 28086),
                  Line("row", <<I(1)>>), Line("row", <<W, F(12011)>>)}

(* rows of the atoms body: two atoms, a row of four fields, a row of five    *)
(* fields whose y is not a number ("3 1 0.0 abc 0.0")                        *)
AtomBodyLines == {Blank, Comment, AtomRow(2, 1), AtomRow(1, 2),
                  Line("row", <<I(3), I(1), F(0), F(0)>>),
                  Line("row", <<I(3), I(1), F(0), W, F(0)>>)}

SeqsUpTo(S, n) == UNION {[1..m -> S] : m \in 0..n}

WellFormedMassRow(l) ==
    l.kind = "row" /\ Len(l.parts) >= 2 /\ IntOk(l.parts[1]) /\ FloatOk(l.parts[2])
WellFormedAtomRow(l) ==
    /\ l.kind = "row" /\ Len(l.parts) >= 5
    /\ IntOk(l.parts[1]) /\ IntOk(l.parts[2])
    /\ FloatOk(l.parts[3]) /\ FloatOk(l.parts[4]) /\ FloatOk(l.parts[5])

(* one mass line per atom type *)
MassBodies == {b \in SeqsUpTo(MassBodyLines, MaxMassLines) :
                 \A i, j \in 1..Len(b) :
                    (i # j /\ WellFormedMassRow(b[i]) /\ WellFormedMassRow(b[j]))
                        => b[i].parts[1] # b[j].parts[1]}
AtomBodies == SeqsUpTo(AtomBodyLines, MaxAtomLines)

DeclaredCounts == {<<0, 0>>, <<2, 1>>, <<7, 3>>}

Sources == [declared : DeclaredCounts, hdr : {"Atoms", "AtomsStyle"}, massesFirst : BOOLEAN,
            mbody : MassBodies, abody : AtomBodies, velocities : BOOLEAN]

FileOf(s) ==
    LET head == <<Title, Blank, Line("natoms", <<I(s.declared[1]), W>>),
                  Line("ntypes", <<I(s.declared[2]), W, W>>), Blank,
                  Line("xlo", <<F(0), F(10000), W, W>>),
                  Line("ylo", <<F(0), F(5000), W, W>>),
                  Line("zlo", <<F(0), F(5000), W, W>>), Blank>>
        massesSection == <<Line("Masses", <<W>>), Blank>> \o s.mbody \o <<Blank>>
        atomsSection == <<Line(s.hdr, IF s.hdr = "Atoms" THEN <<W>> ELSE <<W, W, W>>), Blank>>
                            \o s.abody \o <<Blank>>
        tail == IF s.velocities
                THEN <<Line("Velocities", <<W>>), Blank, Line("row", <<I(1), F(0), F(0), F(0)>>)>>
                ELSE <<>>
    IN  head \o (IF s.massesFirst THEN massesSection \o atomsSection
                 ELSE atomsSection \o massesSection) \o tail

SumIdle ==
    /\ encoding = "utf-8" /\ up_out = MissingLog /\ cwd_out = MissingLog
    /\ crystal_out = MissingLog /\ listing = <<>> /\ fs = <<>> /\ pc = "idle"
    /\ parent_energy = None /\ crystal_cohesive_energy = None /\ folders = <<>>
    /\ k = 0 /\ e_summary = <<>> /\ stdout = <<>>

XyzInit ==
    /\ src \in Sources
    /\ data_file = FileOf(src)
    /\ xpc = "start"
    /\ data = <<>>
    /\ ConvIdle
    /\ SumIdle
    /\ MassIdle
    /\ CheckIdle

(* data = parse_lammps_data(data_filename) *)
Parse ==
    /\ xpc = "start"
    /\ data' = parse_lammps_data(data_file)
    /\ xpc' = IF data'.raised THEN "raised" ELSE "parsed"
    /\ UNCHANGED <<src, data_file, convvars>>
    /\ UNCHANGED <<sumvars, massvars, chkvars>>

XyzNext == Parse

XyzSpec == XyzInit /\ [][XyzNext]_vars

-----------------------------------------------------------------------------
(* Vocabulary of the claims about the parser *)
Rows(b) == {i \in 1..Len(b) : b[i].kind = "row"}
GoodMassRows(b) == {i \in 1..Len(b) : WellFormedMassRow(b[i])}
GoodAtomRows(b) == {i \in 1..Len(b) : WellFormedAtomRow(b[i])}

(* every row of both bodies is well-formed *)
AllWellFormed(s) == Rows(s.mbody) = GoodMassRows(s.mbody) /\ Rows(s.abody) = GoodAtomRows(s.abody)

(* C5: for a file with a Masses section of M well-formed mass lines and an   *)
(* atoms section of N well-formed atom lines, parse_lammps_data returns      *)
(* exactly N atoms and M mass entries whatever counts the header declares,   *)
(* and returns the declared counts unchanged.                                *)
C5_CountsFromBodies ==
    (xpc # "start" /\ AllWellFormed(src)) =>
        /\ ~data.raised
        /\ Len(data.atoms) = Cardinality(Rows(src.abody))
        /\ Cardinality(DOMAIN data.masses) = Cardinality(Rows(src.mbody))
        /\ data.n_atoms = src.declared[1]
        /\ data.n_atom_types = src.declared[2]

(* C6: a malformed row inside the Masses body or the atoms body is skipped   *)
(* and never aborts the parse: parse_lammps_data returns a structure that    *)
(* holds every well-formed row of the section and none of the malformed      *)
(* ones.  Stated for the files whose atoms section the parser finds.         *)
C6_MalformedRowsSkipped ==
    (xpc # "start" /\ src.hdr = "AtomsStyle") =>
        /\ ~data.raised
        /\ Len(data.atoms) = Cardinality(GoodAtomRows(src.abody))
        /\ \A i \in GoodAtomRows(src.abody) :
              \E j \in 1..Len(data.atoms) : data.atoms[j].id = src.abody[i].parts[1].v
        /\ DOMAIN data.masses = {src.mbody[i].parts[1].v : i \in GoodMassRows(src.mbody)}

-----------------------------------------------------------------------------
(*                     data_to_xyz.py : mass_to_element                      *)
-----------------------------------------------------------------------------
(* the largest mass tried, in tenths of a mass unit *)
MaxMassTenths == 2000

(* data_to_xyz.py lines 131-168, in the order of the dict (thousandths) *)
mass_to_element_map == <<
    <<1008, "H">>, <<4003, "He">>, <<6941, "Li">>, <<9012, "Be">>,
    <<10811, "B">>, <<12011, "C">>, <<14007, "N">>, <<15999, "O">>,
    <<18998, "F">>, <<20180, "Ne">>, <<22990, "Na">>, <<24305, "Mg">>,
    <<26982, "Al">>, <<28086, "Si">>, <<30974, "P">>, <<32065, "S">>,
    <<35453, "Cl">>, <<39948, "Ar">>, <<39098, "K">>, <<40078, "Ca">>,
    <<44956, "Sc">>, <<47867, "Ti">>, <<50942, "V">>, <<51996, "Cr">>,
    <<54938, "Mn">>, <<55845, "Fe">>, <<58933, "Co">>, <<58693, "Ni">>,
    <<63546, "Cu">>, <<65380, "Zn">>, <<69723, "Ga">>, <<72640, "Ge">>,
    <<74922, "As">>, <<78960, "Se">>, <<79904, "Br">>, <<83798, "Kr">>
>>

Abs(x) == IF x < 0 THEN 0 - x ELSE x

(* a returned symbol: an element of the table, or the label "X<n>" *)
Element(sym) == [generic |-> FALSE, sym |-> sym, n |-> 0]
Label(n) == [generic |-> TRUE, sym |-> "X", n |-> n]

(* round(mass): to the nearest integer, a half to the even neighbour *)
PyRound(m) ==
    LET q == m \div 1000
        r == m % 1000
    IN  IF r < 500 THEN q
        ELSE IF r > 500 THEN q + 1
        ELSE IF q % 2 = 0 THEN q ELSE q + 1

(* int(mass): truncation toward zero *)
PyInt(mass) == IF mass >= 0 THEN mass \div 1000 ELSE 0 - ((0 - mass) \div 1000)

(* data_to_xyz.py line 171: min(keys, key=lambda x: abs(x - mass)) returns   *)
(* the first key, in dict order, whose distance is the smallest; the index   *)
(* of that key, scanning from i with `best` the smallest so far.             *)
RECURSIVE ClosestFrom(_, _, _)
ClosestFrom(mass, i, best) ==
    IF i > Len(mass_to_element_map) THEN best
    ELSE IF Abs(mass_to_element_map[i][1] - mass) < Abs(mass_to_element_map[best][1] - mass)
    THEN ClosestFrom(mass, i + 1, i)
    ELSE ClosestFrom(mass, i + 1, best)

(* data_to_xyz.py lines 115-177 *)
mass_to_element(mass) ==
    LET closest == ClosestFrom(mass, 2, 1)
        closest_mass == mass_to_element_map[closest][1]
    IN  IF Abs(closest_mass - mass) > 2000
        THEN Label(PyInt(mass))
        ELSE Element(mass_to_element_map[closest][2])

MassInputs == {t * 100 : t \in 0..MaxMassTenths} \cup {12011, 12500}

MassInit ==
    /\ mass_in \in MassInputs
    /\ element = Label(0)
    /\ mpc = "start"
    /\ SumIdle
    /\ XyzIdle
    /\ CheckIdle

Resolve ==
    /\ mpc = "start"
    /\ element' = mass_to_element(mass_in)
    /\ mpc' = "done"
    /\ UNCHANGED mass_in
    /\ UNCHANGED <<sumvars, xyzvars, chkvars>>

MassNext == Resolve

MassSpec == MassInit /\ [][MassNext]_vars

-----------------------------------------------------------------------------
(* Vocabulary of the claims about mass_to_element *)
TableEntries == {mass_to_element_map[i] : i \in 1..Len(mass_to_element_map)}
Dist(e) == Abs(e[1] - mass_in)
Nearest(e) == \A o \in TableEntries : Dist(e) <= Dist(o)

(* C7 as stated: the symbol of a table entry at the minimum absolute mass    *)
(* difference when that difference is at most 2.0, otherwise "X" followed by *)
(* round(mass).                                                              *)
C7_NearestOrRounded ==
    mpc = "done" =>
        IF \E e \in TableEntries : Dist(e) <= 2000
        THEN \E e \in TableEntries : Nearest(e) /\ element = Element(e[2])
        ELSE element = Label(PyRound(mass_in))

(* C7 amended: the symbol of a table entry at the minimum absolute mass      *)
(* difference when that difference is at most 2.0, otherwise "X" followed by *)
(* int(mass), the mass truncated toward zero.                                *)
C7_NearestOrTruncated ==
    mpc = "done" =>
        IF \E e \in TableEntries : Dist(e) <= 2000
        THEN \E e \in TableEntries : Nearest(e) /\ element = Element(e[2])
        ELSE element = Label(IF mass_in >= 0 THEN mass_in \div 1000 ELSE 0 - ((0 - mass_in) \div 1000))

(* a mass farther than 2.0 from every entry and with a fraction above one    *)
(* half has been resolved to a label                                         *)
C7_Witness ==
    /\ mpc = "done"
    /\ element.generic
    /\ mass_in % 1000 > 500

-----------------------------------------------------------------------------
(*              data_to_xyz.py : convert_data_to_xyz and main                *)
-----------------------------------------------------------------------------
MaxConvAtoms == 2

(* A word of the command line.  A file name is a stem and an extension       *)
(* ("in.data"); the names of the model have no directory part, so            *)
(* os.path.basename(name) is the name.                                       *)
Path(stem, ext) == [stem |-> stem, ext |-> ext]
LatticeFlag == Path("--lattice", "")

(* os.path.splitext(name) : (root, extension) *)
splitext(name) == <<name.stem, name.ext>>

(* data_to_xyz.py lines 202-204 *)
default_xyz_filename(data_filename) == Path(splitext(data_filename)[1], "xyz")

(* A file of the directory *)
NoFile == [exists |-> FALSE, lines |-> <<>>]
File(lines) == [exists |-> TRUE, lines |-> lines]

(* The lines of an XYZ file.  The id of an atom is not printed on its line;  *)
(* the model keeps it on the line to tell which atom the line came from.     *)
CountLine(n) == [kind |-> "count", n |-> n]
CommentLine(name, lattice) == [kind |-> "converted", from |-> name, lattice |-> lattice]
AtomLine(el, atom) ==
    [kind |-> "atom", element |-> el, x |-> atom.x, y |-> atom.y, z |-> atom.z, id |-> atom.id]

(* the atoms in the order the parser returned them *)
unsorted_atoms(atoms) == atoms

(* data_to_xyz.py line 207: sorted(data['atoms'], key=lambda x: x['id']);    *)
(* sorted() is stable, atoms of equal id keep their order                    *)
RECURSIVE sorted_by_id(_)
sorted_by_id(atoms) ==
    IF atoms = <<>> THEN <<>>
    ELSE LET last == atoms[Len(atoms)]
             rest == sorted_by_id(SubSeq(atoms, 1, Len(atoms) - 1))
         IN  SelectSeq(rest, LAMBDA b : b.id <= last.id) \o <<last>>
                 \o SelectSeq(rest, LAMBDA b : b.id > last.id)

(* data_to_xyz.py lines 210-212 *)
type_to_element(masses) == [t \in DOMAIN masses |-> mass_to_element(masses[t])]

(* data_to_xyz.py line 243: type_to_element.get(atom['type'], f"X{atom['type']}") *)
element_of(map, atom) ==
    IF atom.type \in DOMAIN map THEN map[atom.type] ELSE Label(atom.type)

(* the upper bound of a range *)
upper(range) == range[2]

(* data_to_xyz.py lines 227-229, 234-236: box[axis][1] - box[axis][0] *)
extent(range) == range[2] - range[1]

(* data_to_xyz.py lines 223-237: the lattice added to the comment, <<>> for  *)
(* none; box['y'] and box['z'] raise KeyError when the key is absent         *)
lattice_of(include_lattice, box) ==
    IF include_lattice /\ "x" \in DOMAIN box
    THEN IF "y" \notin DOMAIN box \/ "z" \notin DOMAIN box
         THEN [raised |-> "KeyError", lattice |-> <<>>]
         ELSE LET lx == extent(box["x"])
                  ly == extent(box["y"])
                  lz == extent(box["z"])
              IN  IF "tilt" \in DOMAIN box
                  THEN [raised |-> "none",
                        lattice |-> <<lx, 0, 0, box["tilt"][1], ly, 0,
                                      box["tilt"][2], box["tilt"][3], lz>>]
                  ELSE [raised |-> "none", lattice |-> <<lx, 0, 0, 0, ly, 0, 0, 0, lz>>]
    ELSE [raised |-> "none", lattice |-> <<>>]

(* data_to_xyz.py lines 179-246, on the files d: the exception raised or     *)
(* "none", the files after the call, and the returned name.  The output is   *)
(* opened (and emptied) after the input was read and closed; what was        *)
(* written before an exception stays in the output.                          *)
convert_data_to_xyz(d, data_filename, xyz_filename, include_lattice) ==
    LET parsed == parse_lammps_data(d[data_filename].lines)
        name == IF xyz_filename.some THEN xyz_filename.v
                ELSE default_xyz_filename(data_filename)
        atoms == sorted_by_id(parsed.atoms)
        map == type_to_element(parsed.masses)
        lat == lattice_of(include_lattice, parsed.box_bounds)
        first == <<CountLine(Len(atoms))>>
        body == [i \in 1..Len(atoms) |-> AtomLine(element_of(map, atoms[i]), atoms[i])]
    IN  IF ~d[data_filename].exists
        THEN [raised |-> "OSError", disk |-> d, ret |-> name]
        ELSE IF parsed.raised
        THEN [raised |-> "ValueError", disk |-> d, ret |-> name]
        ELSE IF lat.raised # "none"
        THEN [raised |-> lat.raised, disk |-> [d EXCEPT ![name] = File(first)], ret |-> name]
        ELSE [raised |-> "none",
              disk |-> [d EXCEPT ![name] =
                          File(first \o <<CommentLine(data_filename, lat.lattice)>> \o body)],
              ret |-> name]

(* data_to_xyz.py lines 268-275: argv[i] is sys.argv[i] *)
RECURSIVE ParseArgs(_, _, _)
ParseArgs(args, i, acc) ==
    IF i > Len(args) THEN acc
    ELSE IF args[i] = LatticeFlag
    THEN ParseArgs(args, i + 1, [acc EXCEPT !.include_lattice = TRUE])
    ELSE IF ~acc.xyz_file.some
    THEN ParseArgs(args, i + 1, [acc EXCEPT !.xyz_file = Some(args[i])])
    ELSE ParseArgs(args, i + 1, acc)

(* what main prints *)
Tell(msg, n, types) == [msg |-> msg, n |-> n, types |-> types]

-----------------------------------------------------------------------------
(* The input files and command lines of the model. *)
InData == Path("in", "data")
InXyz == Path("in", "xyz")
OutXyz == Path("out", "xyz")
AllPaths == {InData, InXyz, OutXyz}

(* rows of the atoms section: three atoms, one of a type without a mass      *)
(* line, and a second row with the id 2                                      *)
ConvAtomLines == {AtomRow(1, 1), AtomRow(2, 2), AtomRow(3, 9), AtomRow(2, 1)}
ConvAtomBodies == SeqsUpTo(ConvAtomLines, MaxConvAtoms)

(* box: the header lines of the box present in the file; origin: the lower   *)
(* bound of the three ranges                                                 *)
ConvLayouts == [box : SUBSET {"x", "y", "z", "tilt"}, origin : {0, 0 - 2500},
                abody : ConvAtomBodies]

BoxHeader(l) ==
    (IF "x" \in l.box THEN <<Line("xlo", <<F(l.origin), F(l.origin + 10000), W, W>>)>> ELSE <<>>)
    \o (IF "y" \in l.box THEN <<Line("ylo", <<F(l.origin), F(l.origin + 5000), W, W>>)>> ELSE <<>>)
    \o (IF "z" \in l.box THEN <<Line("zlo", <<F(l.origin), F(l.origin + 5000), W, W>>)>> ELSE <<>>)
    \o (IF "tilt" \in l.box THEN <<Line("tilt", <<F(1000), F(2000), F(500), W, W, W>>)>> ELSE <<>>)

ConvFileOf(l) ==
    <<Title, Blank, Line("natoms", <<I(Len(l.abody)), W>>), Line("ntypes", <<I(2), W, W>>), Blank>>
    \o BoxHeader(l)
    \o <<Blank, Line("Masses", <<W>>), Blank, MassRow(1, 12011), MassRow(2, 28086), Blank>>
    \o <<Line("AtomsStyle", <<W, W, W>>), Blank>> \o l.abody

(* python data_to_xyz.py <input> [<word> [<word>]] *)
Argvs == {<<n>> \o rest : n \in {InData, InXyz},
                          rest \in SeqsUpTo({LatticeFlag, OutXyz, InData}, 2)}

ConvInit ==
    /\ layout \in ConvLayouts
    /\ argv \in Argvs
    /\ disk = [p \in AllPaths |-> IF p = argv[1] THEN File(ConvFileOf(layout)) ELSE NoFile]
    /\ vpc = "start"
    /\ output_file = None
    /\ conv_stdout = <<>>
    /\ exit_code = 0
    /\ src = <<>> /\ data_file = <<>> /\ xpc = "idle" /\ data = <<>>
    /\ SumIdle
    /\ MassIdle
    /\ CheckIdle

(* data_to_xyz.py lines 258-280, 293-295: main up to the return of           *)
(* convert_data_to_xyz                                                       *)
RunConvert ==
    /\ vpc = "start"
    /\ LET data_file_name == argv[1]
           args == ParseArgs(argv, 2, [xyz_file |-> None, include_lattice |-> FALSE])
           r == convert_data_to_xyz(disk, data_file_name, args.xyz_file, args.include_lattice)
       IN  IF ~disk[data_file_name].exists
           THEN /\ conv_stdout' = Append(conv_stdout, Tell("Error: File not found", 0, 0))
                /\ exit_code' = 1
                /\ vpc' = "exit"
                /\ UNCHANGED <<disk, output_file>>
           ELSE /\ disk' = r.disk
                /\ IF r.raised # "none" /\ ExceptException(r.raised)
                   THEN /\ conv_stdout' = Append(conv_stdout, Tell("Error during conversion", 0, 0))
                        /\ exit_code' = 1
                        /\ vpc' = "exit"
                        /\ UNCHANGED output_file
                   ELSE /\ conv_stdout' = Append(conv_stdout, Tell("Successfully converted", 0, 0))
                        /\ output_file' = Some(r.ret)
                        /\ vpc' = "statistics"
                        /\ UNCHANGED exit_code
    /\ UNCHANGED <<layout, argv>>
    /\ UNCHANGED <<src, data_file, xpc, data>>
    /\ UNCHANGED <<sumvars, massvars, chkvars>>

(* data_to_xyz.py lines 282-295: the statistics, from a second parse of the  *)
(* input name                                                                *)
PrintStatistics ==
    /\ vpc = "statistics"
    /\ LET again == parse_lammps_data(disk[argv[1]].lines)
       IN  IF again.raised
           THEN /\ conv_stdout' = Append(conv_stdout, Tell("Error during conversion", 0, 0))
                /\ exit_code' = 1
                /\ vpc' = "exit"
           ELSE /\ conv_stdout' = Append(conv_stdout,
                                    Tell("Number of atoms", Len(again.atoms),
                                         Cardinality(DOMAIN again.masses)))
                /\ vpc' = "done"
                /\ UNCHANGED exit_code
    /\ UNCHANGED <<layout, argv, disk, output_file>>
    /\ UNCHANGED <<src, data_file, xpc, data>>
    /\ UNCHANGED <<sumvars, massvars, chkvars>>

ConvNext == RunConvert \/ PrintStatistics

ConvSpec == ConvInit /\ [][ConvNext]_vars

-----------------------------------------------------------------------------
(* Vocabulary of the claims about the conversion *)
IncludeLattice == \E i \in 2..Len(argv) : argv[i] = LatticeFlag
Converted == vpc \in {"statistics", "done"}
Written == disk[output_file.v].lines
AtomLines == SelectSeq(Written, LAMBDA l : l.kind = "atom")
InputIds == [i \in 1..Len(layout.abody) |-> layout.abody[i].parts[1].v]
UniqueIds == \A i, j \in 1..Len(InputIds) : i # j => InputIds[i] # InputIds[j]

(* C12: whatever the order of the atoms in the input (ids unique within the  *)
(* structure), the atom lines of the output are strictly ascending by atom   *)
(* id: of two consecutive atom lines the first has the smaller id; every     *)
(* atom has its line.                                                        *)
C12_AtomLinesAscendingById ==
    (Converted /\ UniqueIds) =>
        /\ Len(AtomLines) = Len(layout.abody)
        /\ \A i \in 1..(Len(AtomLines) - 1) : AtomLines[i].id < AtomLines[i + 1].id

(* two atoms with different ids, the larger id first in the input, have      *)
(* been converted                                                            *)
C12_Witness ==
    /\ Converted
    /\ UniqueIds
    /\ \E i, j \in 1..Len(InputIds) : i < j /\ InputIds[i] > InputIds[j]

(* the ranges and the tilt factors of the header lines of the input *)
RangeOf(axis) ==
    <<layout.origin, layout.origin + (IF axis = "x" THEN 10000 ELSE 5000)>>
TiltOf == <<1000, 2000, 500>>
WrittenLattice == Written[2].lattice

(* C13: with include_lattice and the box bounds parsed, the comment line     *)
(* carries a row-major 3x3 lattice of 9 values: the diagonal is hi - lo for  *)
(* x, y, z; the off-diagonal values are 0 for an orthogonal box and xy, xz,  *)
(* yz at positions 4, 7, 8 for a triclinic box; x in [0,10], y in [0,5],     *)
(* z in [0,5] gives 10 0 0 0 5 0 0 0 5.  Without include_lattice no lattice  *)
(* is written.                                                               *)
C13_LatticeFromBox ==
    Converted =>
        /\ ~IncludeLattice => WrittenLattice = <<>>
        /\ (IncludeLattice /\ {"x", "y", "z"} \subseteq layout.box) =>
              /\ Len(WrittenLattice) = 9
              /\ WrittenLattice[1] = RangeOf("x")[2] - RangeOf("x")[1]
              /\ WrittenLattice[5] = RangeOf("y")[2] - RangeOf("y")[1]
              /\ WrittenLattice[9] = RangeOf("z")[2] - RangeOf("z")[1]
              /\ WrittenLattice[2] = 0 /\ WrittenLattice[3] = 0 /\ WrittenLattice[6] = 0
              /\ IF "tilt" \in layout.box
                 THEN /\ WrittenLattice[4] = TiltOf[1]
                      /\ WrittenLattice[7] = TiltOf[2]
                      /\ WrittenLattice[8] = TiltOf[3]
                 ELSE WrittenLattice[4] = 0 /\ WrittenLattice[7] = 0 /\ WrittenLattice[8] = 0
        /\ (IncludeLattice /\ layout.box = {"x", "y", "z"} /\ layout.origin = 0) =>
              WrittenLattice = <<10000, 0, 0, 0, 5000, 0, 0, 0, 5000>>

(* a triclinic box whose ranges do not start at 0 has been converted with    *)
(* include_lattice                                                           *)
C13_Witness ==
    /\ Converted
    /\ IncludeLattice
    /\ layout.box = {"x", "y", "z", "tilt"}
    /\ layout.origin # 0

(* C14: a conversion never modifies its input: after the call, with the      *)
(* default output name or with the output name given on the command line,    *)
(* the content of the input file is what it was before the call.             *)
C14_InputNeverModified ==
    vpc # "start" => disk[argv[1]] = File(ConvFileOf(layout))

(* C16: for any subset of the box header lines present in the input, the     *)
(* conversion with include_lattice completes without raising and writes the  *)
(* atom lines.                                                               *)
C16_MissingBoxLineNeverRaises ==
    (vpc # "start" /\ IncludeLattice) =>
        /\ exit_code = 0
        /\ output_file.some
        /\ Len(SelectSeq(disk[output_file.v].lines, LAMBDA l : l.kind = "atom"))
              = Len(layout.abody)

-----------------------------------------------------------------------------
(*                               check.py                                    *)
-----------------------------------------------------------------------------
MaxVac == 2

(* An out.run as check.py sees it.                                           *)
(*  exists   os.path.exists(out.run)                                         *)
(*  open_err the exception of open()/read(): "none", "FileNotFoundError"     *)
(*           (the file went away after the exists test) or "PermissionError" *)
(*  size     os.path.getsize, in bytes                                       *)
(*  total    what 'Total energy \(eV\) = ([-\d.]+)' finds: "none", "num" (a  *)
(*           number) or "junk" (characters of [-\d.] that float() rejects,   *)
(*           such as "-" or "1.2.3")                                         *)
(*  cohesive the same for 'Cohesive energy \(eV\) = ([-\d.]+)'               *)
(*  poteng   'PotEng\s+([-\d.]+)' matches                                    *)
(*  header   'Step\s+PotEng' matches                                         *)
RunLog(e, o, sz, t, c, pe, h) ==
    [exists |-> e, open_err |-> o, size |-> sz, total |-> t, cohesive |-> c,
     poteng |-> pe, header |-> h]

NoRunLog == RunLog(FALSE, "none", 0, "none", "none", FALSE, FALSE)
EmptyRunLog == RunLog(TRUE, "none", 0, "none", "none", FALSE, FALSE)

RunLogs ==
    {NoRunLog, EmptyRunLog,
     RunLog(TRUE, "none", 500, "none", "none", FALSE, FALSE),
     RunLog(TRUE, "none", 2048, "none", "none", FALSE, FALSE),
     RunLog(TRUE, "none", 500, "num", "none", FALSE, FALSE),
     RunLog(TRUE, "none", 500, "junk", "none", FALSE, FALSE),
     RunLog(TRUE, "none", 500, "none", "num", FALSE, FALSE),
     RunLog(TRUE, "none", 500, "none", "junk", FALSE, FALSE),
     RunLog(TRUE, "none", 2048, "none", "none", TRUE, FALSE),
     RunLog(TRUE, "none", 2048, "none", "none", FALSE, TRUE),
     RunLog(TRUE, "none", 2048, "none", "none", TRUE, TRUE),
     RunLog(TRUE, "PermissionError", 500, "num", "num", FALSE, FALSE),
     RunLog(TRUE, "FileNotFoundError", 500, "num", "num", FALSE, FALSE)}

VacEntries == {[isdir |-> FALSE, log |-> NoRunLog]} \cup {[isdir |-> TRUE, log |-> l] : l \in RunLogs}
VacNames == 1..MaxVac
Globs == UNION {{g \in [1..n -> VacNames] : \A a, b \in 1..n : a # b => g[a] # g[b]} : n \in 0..MaxVac}

(* check.py lines 10-87 *)
check_energy_in_output(log) ==
    IF log.open_err = "FileNotFoundError"
    THEN [has_total_energy |-> FALSE, has_cohesive_energy |-> FALSE,
          has_potential_energy_data |-> FALSE, has_energy_header |-> FALSE,
          file_exists |-> FALSE, file_size |-> 0, error |-> FALSE]
    ELSE IF log.open_err # "none" \/ log.total = "junk"
            \/ (log.cohesive = "junk")
    THEN [has_total_energy |-> FALSE, has_cohesive_energy |-> FALSE,
          has_potential_energy_data |-> FALSE, has_energy_header |-> FALSE,
          file_exists |-> TRUE, file_size |-> 0, error |-> TRUE]
    ELSE [has_total_energy |-> log.total = "num", has_cohesive_energy |-> log.cohesive = "num",
          has_potential_energy_data |-> log.poteng, has_energy_header |-> log.header,
          file_exists |-> TRUE, file_size |-> log.size, error |-> FALSE]

(* check.py lines 139-141 *)
has_key_energies(energy_info) ==
    \/ energy_info.has_total_energy
    \/ energy_info.has_cohesive_energy
    \/ energy_info.has_potential_energy_data

(* check.py lines 162-175: the status printed for a folder without energies *)
status_details(info) ==
    [folder |-> 0, list |-> "without energy",
     detail |-> IF ~info.file_exists THEN "file doesn't exist"
                ELSE IF info.file_size = 0 THEN "empty file"
                ELSE IF info.file_size < 1024 THEN "bytes"
                ELSE "KB",
     error |-> info.error]

SumMassXyzIdle == SumIdle /\ XyzIdle /\ MassIdle

CheckInit ==
    /\ glob_result \in Globs
    /\ vfs \in [Range(glob_result) -> VacEntries]
    /\ cpc = "start"
    /\ vac_folders = <<>>
    /\ vi = 0
    /\ folders_without_energy = <<>>
    /\ missing_files = <<>>
    /\ report = <<>>
    /\ summary = <<>>
    /\ SumMassXyzIdle

(* check.py lines 106-122 *)
FindFolders ==
    /\ cpc = "start"
    /\ vac_folders' = SortSeq(glob_result, LAMBDA a, b : a < b)
    /\ vi' = 1
    /\ cpc' = IF glob_result = <<>> THEN "done" ELSE "loop"
    /\ UNCHANGED <<glob_result, vfs, folders_without_energy, missing_files, report, summary>>
    /\ UNCHANGED <<sumvars, xyzvars, massvars>>

(* check.py lines 124-144: one iteration of the loop *)
CheckFolder ==
    /\ cpc = "loop"
    /\ vi <= Len(vac_folders)
    /\ LET folder == vac_folders[vi]
           entry == vfs[folder]
           energy_info == check_energy_in_output(entry.log)
       IN  IF ~entry.isdir
           THEN UNCHANGED <<missing_files, folders_without_energy>>
           ELSE IF ~entry.log.exists
           THEN /\ missing_files' = Append(missing_files, folder)
                /\ UNCHANGED folders_without_energy
           ELSE IF ~has_key_energies(energy_info)
           THEN /\ folders_without_energy' = Append(folders_without_energy, <<folder, energy_info>>)
                /\ UNCHANGED missing_files
           ELSE UNCHANGED <<missing_files, folders_without_energy>>
    /\ vi' = vi + 1
    /\ UNCHANGED <<glob_result, vfs, cpc, vac_folders, report, summary>>
    /\ UNCHANGED <<sumvars, xyzvars, massvars>>

(* check.py lines 146-192: the report and the final summary *)
ShowResults ==
    /\ cpc = "loop"
    /\ vi > Len(vac_folders)
    /\ IF folders_without_energy = <<>> /\ missing_files = <<>>
       THEN /\ report' = <<>>
            /\ summary' = <<>>
       ELSE /\ report' =
                [i \in 1..Len(missing_files) |->
                    [folder |-> missing_files[i], list |-> "missing", detail |-> "none",
                     error |-> FALSE]]
                \o [i \in 1..Len(folders_without_energy) |->
                    [status_details(folders_without_energy[i][2])
                        EXCEPT !.folder = folders_without_energy[i][1]]]
            /\ LET total_problematic == Len(folders_without_energy) + Len(missing_files)
                   total_folders == Len(vac_folders)
               IN  summary' = <<[total |-> total_folders, problems |-> total_problematic,
                                 ok |-> total_folders - total_problematic]>>
    /\ cpc' = "done"
    /\ UNCHANGED <<glob_result, vfs, vac_folders, vi, folders_without_energy, missing_files>>
    /\ UNCHANGED <<sumvars, xyzvars, massvars>>

CheckNext == FindFolders \/ CheckFolder \/ ShowResults

CheckSpec == CheckInit /\ [][CheckNext]_vars

-----------------------------------------------------------------------------
(* Vocabulary of the claims about check.py *)
VacDirs == {f \in Range(glob_result) : vfs[f].isdir}
ReportOf(f) == {i \in 1..Len(report) : report[i].folder = f}

(* the classification the report gives a directory *)
ClassesOf(f) ==
    IF ReportOf(f) = {} THEN {"ok"}
    ELSE {(CASE report[i].list = "missing" -> "missing-file"
             [] report[i].detail = "file doesn't exist" -> "missing-file"
             [] report[i].detail = "empty file" -> "empty-file"
             [] OTHER -> "present-but-no-recognized-energy-markers") : i \in ReportOf(f)}

(* C8: every matched directory gets exactly one classification, and one      *)
(* whose out.run matches at least one of the four recognized patterns (total *)
(* energy, cohesive energy, PotEng column data, the 'Step PotEng' header) is *)
(* classified ok.  Stated for logs that can be read and whose matched        *)
(* numbers are numbers.                                                      *)
C8_AnyMarkerIsOk ==
    cpc = "done" =>
        \A f \in VacDirs :
            /\ Cardinality(ClassesOf(f)) = 1
            /\ LET log == vfs[f].log
               IN  (/\ log.exists /\ log.open_err = "none"
                    /\ log.total # "junk" /\ log.cohesive # "junk"
                    /\ (log.total = "num" \/ log.cohesive = "num" \/ log.poteng \/ log.header))
                       => ClassesOf(f) = {"ok"}

(* C9: a directory is reported as 'empty file' if and only if its out.run    *)
(* has zero bytes; one whose out.run has content is never reported with the  *)
(* empty-file classification, also when the content could not be read or     *)
(* converted.                                                                *)
C9_EmptyIffZeroBytes ==
    cpc = "done" =>
        \A f \in VacDirs :
            vfs[f].log.exists =>
                (("empty-file" \in ClassesOf(f)) <=> (vfs[f].log.size = 0))

(* the directories the loop classified, and those among them it found ok *)
Classified == VacDirs
ClassifiedOk == {f \in VacDirs : ClassesOf(f) = {"ok"}}

(* C17: the aggregate counts partition what was examined: the reported       *)
(* 'Folders OK' count equals the number of matched directories classified    *)
(* ok, and missing + without-energy + OK equals the number of directories    *)
(* actually classified, whether the matched entries are directories or not.  *)
C17_CountsPartitionDirectories ==
    (cpc = "done" /\ summary # <<>>) =>
        /\ summary[1].ok = Cardinality(ClassifiedOk)
        /\ Len(missing_files) + Len(folders_without_energy) + summary[1].ok
              = Cardinality(Classified)
====
